---- MODULE Spec2Model ----
(***************************************************************************)
(* A model of gyt's Repository facade (src/gyt/repository.py): the status  *)
(* line classifier, the commit/branch text parsers, the command builder    *)
(* and the mutating operations, each driving the external tool through     *)
(* Repository.execute.                                                     *)
(*                                                                         *)
(* Text is a sequence of atoms.  An atom is a one-character string, or one *)
(* of the words the code looks for ("On branch", "new file", "modified",   *)
(* "renamed"), or a name; the Python string a text stands for is the       *)
(* concatenation of its atoms.  No atom of the alphabets used below can    *)
(* join with its neighbours to form another atom, so substring tests on    *)
(* atoms and on characters agree.                                          *)
(***************************************************************************)
EXTENDS Integers, Sequences, FiniteSets, TLC

VARIABLES
    response,   \* status parser: the text the "status" invocation returned
    sections,   \* status parser: the snapshot built from it (<<>> before the call)
    query,      \* text queries: which property is read
    logtext,    \* text queries: the text the invocation returned
    answer,     \* text queries: the outcome of the property read
    fs,         \* facade: per path, "absent", "dir" (a directory) or "repo" (with .git)
    git,        \* facade: the content of the repository the handle points to
    repo,       \* facade: the Repository handle the caller holds (None before build)
    before,     \* facade: fs and git as they were when the last call started
    call,       \* facade: the last call and its arguments
    trace,      \* facade: the invocations the last call issued, in order
    result      \* facade: what the last call returned or raised

vars == <<response, sections, query, logtext, answer, fs, git, repo, before, call, trace, result>>

----------------------------------------------------------------------------
(* Bounds of the model *)

MaxLines == 3
MaxLogParts == 5
MaxBranchText == 3
MaxFiles == 2
MaxCommits == 2

----------------------------------------------------------------------------
(* Python str operations on texts *)

TAB == "\t"
NL == "\n"
Whitespace == {" ", TAB, NL}

\* Optional values: None is the empty tuple, a value x is <<x>>.
None == <<>>
Some(x) == <<x>>

Drop(s, n) == SubSeq(s, n + 1, Len(s))

StartsWith(s, p) == Len(p) <= Len(s) /\ SubSeq(s, 1, Len(p)) = p

\* str.find: the index of the first occurrence of p in s, 0 when there is none
Find(s, p) ==
    LET hits == {i \in 1..(Len(s) - Len(p) + 1) : SubSeq(s, i, i + Len(p) - 1) = p}
    IN IF hits = {} THEN 0 ELSE CHOOSE i \in hits : \A j \in hits : i <= j

\* p in s
Contains(s, p) == Find(s, p) # 0

\* str.replace(old, new), old non-empty: leftmost non-overlapping occurrences
RECURSIVE Replace(_, _, _)
Replace(s, old, new) ==
    IF Len(s) < Len(old) THEN s
    ELSE IF StartsWith(s, old) THEN new \o Replace(Drop(s, Len(old)), old, new)
    ELSE <<Head(s)>> \o Replace(Tail(s), old, new)

RECURSIVE LStrip(_)
LStrip(s) == IF s # <<>> /\ Head(s) \in Whitespace THEN LStrip(Tail(s)) ELSE s

RECURSIVE RStrip(_)
RStrip(s) ==
    IF s # <<>> /\ s[Len(s)] \in Whitespace THEN RStrip(SubSeq(s, 1, Len(s) - 1)) ELSE s

\* str.strip()
Strip(s) == RStrip(LStrip(s))

\* str.split(sep): every piece between occurrences of sep, empty pieces kept
RECURSIVE Split(_, _)
Split(s, sep) ==
    LET i == Find(s, sep)
    IN IF i = 0 THEN <<s>>
       ELSE <<SubSeq(s, 1, i - 1)>> \o Split(Drop(s, i + Len(sep) - 1), sep)

\* str.splitlines(): the lines of s, no empty last line after a final newline
RECURSIVE SplitLines(_)
SplitLines(s) ==
    LET i == Find(s, <<NL>>)
    IN IF s = <<>> THEN <<>>
       ELSE IF i = 0 THEN <<s>>
       ELSE <<SubSeq(s, 1, i - 1)>> \o SplitLines(Drop(s, i))

\* the concatenation of the texts of a sequence
RECURSIVE Concat(_)
Concat(ss) == IF ss = <<>> THEN <<>> ELSE Head(ss) \o Concat(Tail(ss))

\* sep.join(ss)
RECURSIVE Join(_, _)
Join(ss, sep) ==
    IF ss = <<>> THEN <<>>
    ELSE IF Len(ss) = 1 THEN ss[1]
    ELSE ss[1] \o sep \o Join(Tail(ss), sep)

\* all sequences over S of length at most n
SeqUpTo(S, n) == UNION {[1..k -> S] : k \in 0..n}

----------------------------------------------------------------------------
(* Repository._clean_status_line and Repository.status *)

OnBranch == "On branch"
NewFile == "new file"
Modified == "modified"
Renamed == "renamed"

NoLine == [slot |-> "none", value |-> <<>>]

\* a classifier that tests 'modified' before 'new file', against which the
\* priority order of _clean_status_line is compared
CleanStatusLineSwapped(line) ==
    IF StartsWith(line, <<OnBranch>>)
    THEN [slot |-> "branch", value |-> Replace(line, <<OnBranch, " ">>, <<>>)]
    ELSE IF Contains(line, <<Modified>>)
    THEN [slot |-> "modified", value |-> Strip(Replace(line, <<TAB, Modified, ":">>, <<>>))]
    ELSE IF Contains(line, <<NewFile>>)
    THEN [slot |-> "new", value |-> Strip(Replace(line, <<TAB, NewFile, ":">>, <<>>))]
    ELSE IF Contains(line, <<Renamed>>)
    THEN [slot |-> "modified", value |-> Strip(Replace(line, <<TAB, Renamed, ":">>, <<>>))]
    ELSE IF StartsWith(line, <<TAB>>)
    THEN [slot |-> "untracked", value |-> Strip(line)]
    ELSE NoLine

CleanStatusLine(line) ==
    IF StartsWith(line, <<OnBranch>>)
    THEN [slot |-> "branch", value |-> Replace(line, <<OnBranch, " ">>, <<>>)]
    ELSE IF Contains(line, <<NewFile>>)
    THEN [slot |-> "new", value |-> Strip(Replace(line, <<TAB, NewFile, ":">>, <<>>))]
    ELSE IF Contains(line, <<Modified>>)
    THEN [slot |-> "modified", value |-> Strip(Replace(line, <<TAB, Modified, ":">>, <<>>))]
    ELSE IF Contains(line, <<Renamed>>)
    THEN [slot |-> "modified", value |-> Strip(Replace(line, <<TAB, Renamed, ":">>, <<>>))]
    ELSE IF StartsWith(line, <<TAB>>)
    THEN [slot |-> "untracked", value |-> Strip(line)]
    ELSE NoLine

EmptySections == [branch |-> None, new |-> <<>>, modified |-> <<>>, untracked |-> <<>>]

\* a loop body that puts each value in front of its slot, against which the
\* order kept by status is compared
StatusLinePrepend(secs, line) ==
    LET c == CleanStatusLine(line)
    IN IF c.slot = "none" THEN secs
       ELSE IF c.slot = "branch" THEN [secs EXCEPT !.branch = Some(c.value)]
       ELSE [secs EXCEPT ![c.slot] = <<c.value>> \o @]

\* one pass of the loop body of status
StatusLine(secs, line) ==
    LET c == CleanStatusLine(line)
    IN IF c.slot = "none" THEN secs
       ELSE IF c.slot = "branch" THEN [secs EXCEPT !.branch = Some(c.value)]
       ELSE [secs EXCEPT ![c.slot] = Append(@, c.value)]

RECURSIVE StatusLoop(_, _)
StatusLoop(secs, lines) ==
    IF lines = <<>> THEN secs ELSE StatusLoop(StatusLine(secs, Head(lines)), Tail(lines))

\* the snapshot status builds from the text of the "status" invocation
ParseStatus(text) == StatusLoop(EmptySections, SplitLines(text))

----------------------------------------------------------------------------
(* The status parser on every text of a bounded family *)

PathA == "a.py"
PathB == "b.py"

\* lines as `git status` prints them, and lines that satisfy several rules or none
StatusLines ==
    { <<OnBranch, " ", "main">>,
      <<OnBranch, " ", "dev">>,
      <<OnBranch, " ", NewFile>>,
      <<OnBranch, "x">>,
      <<OnBranch, " ", "x", " ", OnBranch, " ", "y">>,
      <<TAB, NewFile, ":", " ", " ", PathA>>,
      <<TAB, NewFile, ":", " ", " ", PathB>>,
      <<TAB, Modified, ":", " ", " ", PathA>>,
      <<TAB, Renamed, ":", " ", " ", PathB>>,
      <<TAB, PathA>>,
      <<TAB, PathB, " ">>,
      <<TAB, NewFile, ":", " ", Modified>>,
      <<TAB, Renamed, ":", " ", Modified>>,
      <<TAB, Modified, "_", PathA>>,
      <<NewFile, ":", " ", PathA>>,
      <<"x", TAB, NewFile, ":", PathA>>,
      <<" ", TAB, PathA>>,
      <<TAB, " ">>,
      <<"x">>,
      <<>> }

\* texts of at most MaxLines lines, and the one-line texts ended by a newline
StatusTexts ==
    {Join(ls, <<NL>>) : ls \in SeqUpTo(StatusLines, MaxLines)}
    \cup {l \o <<NL>> : l \in StatusLines}

IdleFacade ==
    /\ fs = <<>>
    /\ git = None
    /\ repo = None
    /\ before = None
    /\ call = None
    /\ trace = <<>>
    /\ result = None

IdleQuery == query = "none" /\ logtext = <<>> /\ answer = <<>>

IdleStatus == response = <<>> /\ sections = <<>>

InitStatus ==
    /\ response \in StatusTexts
    /\ sections = <<>>
    /\ IdleQuery
    /\ IdleFacade

\* status() on the text `response`
StatusCall ==
    /\ sections = <<>>
    /\ sections' = Some(ParseStatus(response))
    /\ UNCHANGED <<response, query, logtext, answer, fs, git, repo, before, call, trace, result>>

NextStatus == StatusCall

SpecStatus == InitStatus /\ [][NextStatus]_vars

----------------------------------------------------------------------------
(* What section 4.2 of the specification asks of the status parser *)

HasWord(l, w) == \E i \in DOMAIN l : l[i] = w

\* the first rule of the priority list a line satisfies
FirstRule(l) ==
    IF l # <<>> /\ l[1] = OnBranch THEN "branch"
    ELSE IF HasWord(l, NewFile) THEN "new"
    ELSE IF HasWord(l, Modified) THEN "modified"
    ELSE IF HasWord(l, Renamed) THEN "renamed"
    ELSE IF l # <<>> /\ l[1] = TAB THEN "untracked"
    ELSE "none"

\* the slot a rule appends to: renames count as modifications
SlotOf(rule) == IF rule = "renamed" THEN "modified" ELSE rule

\* the marker text a rule strips: a tab, the marker word, a colon
MarkerOf(rule) ==
    IF rule = "new" THEN <<TAB, NewFile, ":">>
    ELSE IF rule = "modified" THEN <<TAB, Modified, ":">>
    ELSE <<TAB, Renamed, ":">>

\* the path a marker or untracked line carries
PathOf(l) ==
    IF FirstRule(l) = "untracked" THEN Strip(l)
    ELSE Strip(Replace(l, MarkerOf(FirstRule(l)), <<>>))

\* the paths of the lines of a slot, in the order of the lines
PathsOf(lines, slot) ==
    LET idx == SelectSeq([i \in 1..Len(lines) |-> i],
                         LAMBDA i : SlotOf(FirstRule(lines[i])) = slot)
    IN [k \in 1..Len(idx) |-> PathOf(lines[idx[k]])]

\* the branch of the last branch line, None without one
LastBranch(lines) ==
    LET bs == {i \in DOMAIN lines : FirstRule(lines[i]) = "branch"}
    IN IF bs = {} THEN None
       ELSE Some(Replace(lines[CHOOSE i \in bs : \A j \in bs : j <= i],
                         <<OnBranch, " ">>, <<>>))

Trimmed(v) == v = <<>> \/ (v[1] \notin Whitespace /\ v[Len(v)] \notin Whitespace)

\* C1: for every status text, the snapshot's 'new' holds the paths of the
\* new-file lines, 'modified' those of the modified and renamed lines,
\* 'untracked' those of the remaining tab-indented lines, each in the order
\* of the lines of the text, and 'branch' is the value of the last
\* 'On branch' line, None when the text has none.
C1_StatusKeepsOrder ==
    sections # <<>> =>
        LET lines == SplitLines(response)
            s == sections[1]
        IN /\ s.new = PathsOf(lines, "new")
           /\ s.modified = PathsOf(lines, "modified")
           /\ s.untracked = PathsOf(lines, "untracked")
           /\ s.branch = LastBranch(lines)

\* a text whose lines interleave the slots: new, modified, new, after which
\* 'new' holds two different paths in input order
C1_Witness ==
    /\ sections # <<>>
    /\ Len(SplitLines(response)) = 3
    /\ FirstRule(SplitLines(response)[2]) = "modified"
    /\ sections[1].new = << <<PathB>>, <<PathA>> >>
    /\ Len(sections[1].modified) = 1

\* the snapshot holds exactly these values
OneLine(vNew, vMod, vUnt, vBranch) ==
    LET s == sections[1]
    IN /\ s.branch = vBranch
       /\ s.new = vNew
       /\ s.modified = vMod
       /\ s.untracked = vUnt

\* C10: the classifier applies branch prefix, new-file marker, modified
\* marker, renamed marker, leading tab in that order; a line is classified
\* by the first rule it satisfies and stored in exactly one slot, a line
\* satisfying no rule changes nothing, and the value stored for a new or
\* modified line is the line without the marker text, trimmed.
C10_FirstRuleOnly ==
    sections # <<>> =>
        LET lines == SplitLines(response)
            s == sections[1]
            classified == {i \in DOMAIN lines : FirstRule(lines[i]) \notin {"none", "branch"}}
        IN /\ Len(s.new) + Len(s.modified) + Len(s.untracked) = Cardinality(classified)
           /\ \A i \in 1..Len(s.new) : Trimmed(s.new[i])
           /\ \A i \in 1..Len(s.modified) : Trimmed(s.modified[i])
           /\ Len(lines) = 1 =>
                LET l == lines[1]
                    v == Strip(Replace(l, MarkerOf(FirstRule(l)), <<>>))
                IN IF StartsWith(l, <<OnBranch>>)
                   THEN OneLine(<<>>, <<>>, <<>>, Some(Replace(l, <<OnBranch, " ">>, <<>>)))
                   ELSE IF HasWord(l, NewFile)
                   THEN OneLine(<<v>>, <<>>, <<>>, None)
                   ELSE IF HasWord(l, Modified) \/ HasWord(l, Renamed)
                   THEN OneLine(<<>>, <<v>>, <<>>, None)
                   ELSE IF StartsWith(l, <<TAB>>)
                   THEN OneLine(<<>>, <<>>, <<Strip(l)>>, None)
                   ELSE s = EmptySections

\* the line "\tnew file: modified", which satisfies the new-file and the
\* modified rule, has gone to 'new' alone
C10_Witness ==
    /\ sections # <<>>
    /\ SplitLines(response) = << <<TAB, NewFile, ":", " ", Modified>> >>
    /\ sections[1].new = << <<Modified>> >>
    /\ sections[1].modified = <<>>

----------------------------------------------------------------------------
(* The properties that parse the text of one invocation:                   *)
(* current_branch, local_branches, last_commit, get_commit_by_position     *)

\* what a call gives back: a value, or the exception it raises
Return(v) == [kind |-> "return", value |-> Some(v), error |-> "none"]
Raise(e) == [kind |-> "raise", value |-> None, error |-> e]

\* gyt.branch.Branch: a name, displayed as that name
Branch(name) == [name |-> name]
BranchStr(b) == b.name

\* gyt.commit.Commit
Commit(chash, cauthor, cdate_time, cmessage) ==
    [hash |-> chash, author |-> cauthor, date_time |-> cdate_time, message |-> cmessage]

Delimeter == <<"¡", "|", "&">>
Quote == "\""

\* the one date text of the alphabet that matches '%Y-%m-%d %H:%M:%S %z'
IsoDate == "2023-05-01 10:00:00 +0000"

\* datetime.strptime(text, '%Y-%m-%d %H:%M:%S %z'): the date-time, None for
\* a text the pattern does not match in full (strptime raises ValueError)
Strptime(text) ==
    IF text = <<IsoDate>>
    THEN Some([year |-> 2023, month |-> 5, day |-> 1, hour |-> 10, minute |-> 0,
               second |-> 0, utcoffset |-> 0])
    ELSE None

MapStripBranch(lines) == [i \in 1..Len(lines) |-> Branch(Strip(lines[i]))]

\* current_branch without its emptiness test, for comparison
CurrentBranchUnchecked(text) == Return(Branch(Strip(text)))

\* current_branch, given the text of `rev-parse --abbrev-ref HEAD`
CurrentBranchOf(text) ==
    LET branch == Strip(text)
    IN IF branch = <<>> THEN Raise("RepositoryEmpty") ELSE Return(Branch(branch))

\* local_branches, given the text of `branch`
LocalBranchesOf(text) ==
    LET branch == MapStripBranch(SplitLines(Replace(text, <<"*", " ">>, <<>>)))
    IN IF branch = <<>> THEN Raise("RepositoryEmpty") ELSE Return(branch)

\* a parse that accepts more than four fields and drops the extra ones, for
\* comparison
LastCommitTruncating(text) ==
    LET last_log == Replace(text, <<Quote>>, <<>>)
        fields == Split(last_log, Delimeter)
    IN IF Len(fields) < 4 THEN Raise("ValueError")
       ELSE IF Strptime(fields[3]) = None THEN Raise("ValueError")
       ELSE Return(Commit(fields[1], fields[2], Strptime(fields[3])[1], fields[4]))

\* last_commit, given the text of `log --pretty=format:... -1 --date=iso`:
\* unpacking the split into four names raises ValueError unless it has four
\* pieces
LastCommitOf(text) ==
    LET last_log == Replace(text, <<Quote>>, <<>>)
        fields == Split(last_log, Delimeter)
    IN IF Len(fields) # 4 THEN Raise("ValueError")
       ELSE IF Strptime(fields[3]) = None THEN Raise("ValueError")
       ELSE Return(Commit(fields[1], fields[2], Strptime(fields[3])[1], fields[4]))

\* get_commit_by_position, given the text of `show HEAD~n --pretty=format:... -s`
CommitByPositionOf(text) ==
    LET last_log == Replace(text, <<Quote>>, <<>>)
        fields == Split(last_log, Delimeter)
    IN IF Len(fields) # 4 THEN Raise("ValueError")
       ELSE IF Strptime(fields[3]) = None THEN Raise("ValueError")
       ELSE Return(Commit(fields[1], fields[2], Strptime(fields[3])[1], fields[4]))

----------------------------------------------------------------------------
(* The text queries on every text of a bounded family *)

\* pieces of log text: fields followed by the delimiter, a lone field, the
\* quote the format adds, and the two halves of a delimiter
LogParts ==
    { <<"x">> \o Delimeter,
      <<"y">> \o Delimeter,
      <<IsoDate>> \o Delimeter,
      <<"z">>,
      <<Quote>>,
      <<"¡">>,
      <<"|", "&">> }

LogTexts == {Concat(ps) : ps \in SeqUpTo(LogParts, MaxLogParts)}

BranchTexts == SeqUpTo({"*", " ", NL, "main", "dev"}, MaxBranchText)

InitQuery ==
    /\ query \in {"current_branch", "local_branches", "last_commit", "get_commit_by_position"}
    /\ logtext \in IF query \in {"current_branch", "local_branches"} THEN BranchTexts ELSE LogTexts
    /\ answer = <<>>
    /\ IdleStatus
    /\ IdleFacade

QueryUnchanged ==
    UNCHANGED <<response, sections, query, logtext, fs, git, repo, before, call, trace, result>>

ReadCurrentBranch ==
    /\ query = "current_branch" /\ answer = <<>>
    /\ answer' = Some(CurrentBranchOf(logtext))
    /\ QueryUnchanged

ReadLocalBranches ==
    /\ query = "local_branches" /\ answer = <<>>
    /\ answer' = Some(LocalBranchesOf(logtext))
    /\ QueryUnchanged

ReadLastCommit ==
    /\ query = "last_commit" /\ answer = <<>>
    /\ answer' = Some(LastCommitOf(logtext))
    /\ QueryUnchanged

GetCommitByPosition ==
    /\ query = "get_commit_by_position" /\ answer = <<>>
    /\ answer' = Some(CommitByPositionOf(logtext))
    /\ QueryUnchanged

NextQuery ==
    \/ ReadCurrentBranch
    \/ ReadLocalBranches
    \/ ReadLastCommit
    \/ GetCommitByPosition

SpecQuery == InitQuery /\ [][NextQuery]_vars

----------------------------------------------------------------------------
(* What the specification asks of the text queries *)

LogQueries == {"last_commit", "get_commit_by_position"}
BranchQueries == {"current_branch", "local_branches"}

\* the fields of the text as the tool returned it
RawFields == Split(logtext, Delimeter)

\* the fields of the text once the code has removed its double quotes
CleanFields == Split(Replace(logtext, <<Quote>>, <<>>), Delimeter)

\* C6 as stated: a log query whose returned text does not split on the
\* delimiter into exactly four fields fails and returns no Commit.
C6_RawTextOfFourFields ==
    (query \in LogQueries /\ answer # <<>> /\ Len(RawFields) # 4)
        => answer[1].kind = "raise"

\* C6, amended: a log query fails with ValueError and returns no Commit
\* whenever the returned text, with every double quote removed, does not
\* split on the delimiter into exactly four fields; a Commit is built only
\* from exactly four fields of that text, in the order hash, author,
\* date-time, subject.
C6_CleanTextOfFourFields ==
    (query \in LogQueries /\ answer # <<>>) =>
        /\ Len(CleanFields) # 4 => answer[1] = Raise("ValueError")
        /\ answer[1].kind = "return" =>
             /\ Len(CleanFields) = 4
             /\ answer[1].value[1].hash = CleanFields[1]
             /\ answer[1].value[1].author = CleanFields[2]
             /\ Some(answer[1].value[1].date_time) = Strptime(CleanFields[3])
             /\ answer[1].value[1].message = CleanFields[4]

\* last_commit has failed on a text of three fields
C6_Witness ==
    /\ query = "last_commit"
    /\ answer = Some(Raise("ValueError"))
    /\ Len(CleanFields) = 3
    /\ CleanFields[2] = <<IsoDate>>

\* C7 as stated: every branch query and every log query whose invocation
\* returns empty text raises RepositoryEmpty.
C7_EmptyTextRaisesRepositoryEmpty ==
    (answer # <<>> /\ logtext = <<>>) => answer[1] = Raise("RepositoryEmpty")

\* C7, amended: on empty text current_branch and local_branches raise
\* RepositoryEmpty, and last_commit and get_commit_by_position fail with the
\* ValueError of a text that has not four fields; none returns a value.
C7_EmptyTextRaises ==
    (answer # <<>> /\ logtext = <<>>) =>
        answer[1] = IF query \in BranchQueries
                    THEN Raise("RepositoryEmpty")
                    ELSE Raise("ValueError")

\* current_branch has raised RepositoryEmpty on empty text
C7_Witness ==
    /\ query = "current_branch"
    /\ logtext = <<>>
    /\ answer = Some(Raise("RepositoryEmpty"))

----------------------------------------------------------------------------
(* The external tool: what an invocation does to the repository it runs in *)
(* and what it prints.  Only the state the facade's snapshots show is kept: *)
(* the current branch, the branches, each file's place (untracked, staged,  *)
(* committed), the commit messages and the remotes.                         *)

Paths == {"proj", "other", "third"}
Files == <<PathA, PathB>>
MissingFile == "zz.py"
BranchNames == <<"dev", "main">>
RemoteNames == {"origin"}
RemoteOrder == <<"origin">>

W(atom) == <<atom>>

RangeOf(seq) == {seq[i] : i \in DOMAIN seq}

\* a repository right after init; the files are the ones the user then writes
FreshRepo ==
    [head |-> "main", branches |-> {}, files |-> [f \in RangeOf(Files) |-> "untracked"],
     log |-> <<>>, remotes |-> {}]

\* repositories that existed before the facade was pointed at them
ExistingRepos ==
    { FreshRepo,
      [head |-> "main", branches |-> {"main"},
       files |-> [f \in RangeOf(Files) |-> IF f = PathA THEN "committed" ELSE "untracked"],
       log |-> << <<"fix", " ", "bug">> >>, remotes |-> {"origin"}],
      [head |-> "dev", branches |-> {"main", "dev"},
       files |-> [f \in RangeOf(Files) |-> IF f = PathA THEN "staged" ELSE "untracked"],
       log |-> << <<"fix", " ", "bug">> >>, remotes |-> {}] }

Ok(g, out) == [ok |-> TRUE, out |-> out, g |-> g]
Fail(g) == [ok |-> FALSE, out |-> <<>>, g |-> g]

\* the lines `status` prints for the files of one place
RECURSIVE FileLines(_, _, _)
FileLines(g, names, place) ==
    IF names = <<>> THEN <<>>
    ELSE (IF g.files[Head(names)] # place THEN <<>>
          ELSE IF place = "staged" THEN <<TAB, NewFile, ":", " ", " ", " ", Head(names), NL>>
          ELSE <<TAB, Head(names), NL>>)
         \o FileLines(g, Tail(names), place)

\* the text `status` prints
StatusText(g) ==
    <<OnBranch, " ", g.head, NL>>
    \o (IF \E f \in DOMAIN g.files : g.files[f] = "staged"
        THEN <<"Changes to be committed:", NL>> \o FileLines(g, Files, "staged")
        ELSE <<>>)
    \o (IF \E f \in DOMAIN g.files : g.files[f] = "untracked"
        THEN <<"Untracked files:", NL>> \o FileLines(g, Files, "untracked")
        ELSE <<>>)

\* the text `branch` prints
RECURSIVE BranchListText(_, _)
BranchListText(g, names) ==
    IF names = <<>> THEN <<>>
    ELSE (IF Head(names) \notin g.branches THEN <<>>
          ELSE (IF Head(names) = g.head THEN <<"*", " ">> ELSE <<" ", " ">>)
               \o <<Head(names), NL>>)
         \o BranchListText(g, Tail(names))

\* the text `log --pretty=format:"%H<d>%an<d>%ad<d>%s" -1 --date=iso` prints:
\* the format is one argument, so its quotes are printed too
CommitText(g, i) ==
    <<Quote, "c", ToString(i)>> \o Delimeter \o <<"author">> \o Delimeter
    \o <<IsoDate>> \o Delimeter \o g.log[i] \o <<Quote>>

LogText(g) == CommitText(g, Len(g.log))

\* the text `remote` prints
RemoteListText(g) ==
    Concat([i \in 1..Len(RemoteOrder) |->
                IF RemoteOrder[i] \in g.remotes THEN <<RemoteOrder[i], NL>> ELSE <<>>])

\* the commits HEAD~k names in g: k steps back from the last
Ancestors(g, ref) == {k \in 0..(Len(g.log) - 1) : ref = <<"HEAD~", ToString(k)>>}

\* the tool run with arguments args in repository g; lucky decides what the
\* state kept here does not: the network, and whether histories allow a
\* fast-forward or a clean revert
GitTool(g, args, lucky) ==
    LET cmd == args[1]
        n == Len(args)
    IN IF cmd = W("status") THEN Ok(g, StatusText(g))
       ELSE IF cmd = W("rev-parse")
       THEN IF g.log = <<>> THEN Fail(g) ELSE Ok(g, <<g.head, NL>>)
       ELSE IF cmd = W("log")
       THEN IF g.log = <<>> THEN Fail(g) ELSE Ok(g, LogText(g))
       ELSE IF cmd = W("show")
       THEN IF n >= 2 /\ Ancestors(g, args[2]) # {}
            THEN Ok(g, CommitText(g, Len(g.log) - (CHOOSE k \in Ancestors(g, args[2]) : TRUE)))
            ELSE Fail(g)
       ELSE IF cmd = W("remote") /\ n = 1 THEN Ok(g, RemoteListText(g))
       ELSE IF cmd = W("branch") /\ n = 1 THEN Ok(g, BranchListText(g, BranchNames))
       ELSE IF cmd = W("branch")
       THEN IF n = 2 /\ Len(args[2]) = 1 /\ g.log # <<>> /\ args[2][1] \notin g.branches
            THEN Ok([g EXCEPT !.branches = @ \cup {args[2][1]}], <<>>)
            ELSE Fail(g)
       ELSE IF cmd = W("checkout")
       THEN IF n = 2 /\ Len(args[2]) = 1 /\ args[2][1] \in g.branches
            THEN Ok([g EXCEPT !.head = args[2][1]], <<>>)
            ELSE Fail(g)
       ELSE IF cmd = W("add")
       THEN IF n = 2 /\ args[2] = W("-A")
            THEN Ok([g EXCEPT !.files =
                        [f \in DOMAIN @ |-> IF @[f] = "untracked" THEN "staged" ELSE @[f]]], <<>>)
            ELSE IF n = 2 /\ Len(args[2]) = 1 /\ args[2][1] \in DOMAIN g.files
            THEN Ok([g EXCEPT !.files[args[2][1]] = IF @ = "untracked" THEN "staged" ELSE @], <<>>)
            ELSE Fail(g)
       ELSE IF cmd = W("commit") /\ n = 3 /\ args[2] = W("-m")
       THEN IF \E f \in DOMAIN g.files : g.files[f] = "staged"
            THEN Ok([g EXCEPT !.files = [f \in DOMAIN @ |-> IF @[f] = "staged" THEN "committed" ELSE @[f]],
                              !.log = Append(@, args[3]),
                              !.branches = @ \cup {g.head}], <<>>)
            ELSE Fail(g)
       ELSE IF cmd = W("commit") /\ n = 4 /\ args[2] = W("--amend") /\ args[3] = W("-m")
       THEN IF g.log # <<>>
            THEN Ok([g EXCEPT !.log[Len(g.log)] = args[4]], <<>>)
            ELSE Fail(g)
       ELSE IF cmd = W("revert")
       THEN IF g.log # <<>> /\ lucky
            THEN Ok([g EXCEPT !.log = Append(@, <<"Revert">>)], <<>>)
            ELSE Fail(g)
       ELSE IF cmd = W("remote") /\ n = 4 /\ args[2] = W("add")
       THEN IF Len(args[3]) = 1 /\ args[3][1] \notin g.remotes
            THEN Ok([g EXCEPT !.remotes = @ \cup {args[3][1]}], <<>>)
            ELSE Fail(g)
       ELSE IF cmd = W("remote") /\ n = 3 /\ args[2] = W("remove")
       THEN IF Len(args[3]) = 1 /\ args[3][1] \in g.remotes
            THEN Ok([g EXCEPT !.remotes = @ \ {args[3][1]}], <<>>)
            ELSE Fail(g)
       ELSE IF cmd \in {W("push"), W("pull")}
       THEN IF n >= 3 /\ Len(args[2]) = 1 /\ args[2][1] \in g.remotes /\ lucky
            THEN Ok(g, <<>>)
            ELSE Fail(g)
       ELSE IF cmd = W("merge")
       THEN IF Len(args[n]) = 1 /\ args[n][1] \in g.branches /\ lucky
            THEN Ok(g, <<>>)
            ELSE Fail(g)
       ELSE Fail(g)

----------------------------------------------------------------------------
(* Repository.execute and the calls built on it.  A call in progress is a  *)
(* record: the repository content so far, the invocations issued so far,    *)
(* the exception raised (None while there is none), the text of the last    *)
(* invocation and the value to return.                                      *)

Start(g) == [g |-> g, trace |-> <<>>, exc |-> None, out |-> <<>>, ret |-> None]

Invocation(tool, argv, ok, out) == [tool |-> tool, argv |-> argv, ok |-> ok, out |-> out]

\* gyt.utils.run_git_command: runs the tool with the arguments after the
\* global `-C <path>`; a non-zero exit raises
RunGitCommand(g, argv, lucky) ==
    CHOOSE r \in {GitTool(g, args, lucky) : args \in {Drop(argv, 2)}} : TRUE

\* the call in progress s after the invocation argv ended as r
Invoked(s, argv, r) ==
    [s EXCEPT !.g = r.g,
              !.trace = Append(@, Invocation("git", argv, r.ok, r.out)),
              !.exc = IF r.ok THEN None ELSE Some("ProcessFailure"),
              !.out = r.out]

ExecuteArgv(s, argv, lucky) ==
    CHOOSE t \in {Invoked(s, argv, r) : r \in {RunGitCommand(s.g, argv, lucky)}} : TRUE

ExecuteOn(s, path, command, args, lucky) ==
    IF s.exc # None THEN s
    ELSE CHOOSE t \in {ExecuteArgv(s, argv, lucky) :
                       argv \in {<<W("-C"), W(path)>> \o Split(command, <<" ">>) \o args}} : TRUE

\* Repository.execute(command, *args); once an exception is raised the
\* statements after it do not run
Execute(st, path, command, args, lucky) ==
    CHOOSE t \in {ExecuteOn(s, path, command, args, lucky) : s \in {st}} : TRUE

\* the snapshot, unless the invocation raised
Snapshot(s) == IF s.exc # None THEN s ELSE [s EXCEPT !.ret = Some(ParseStatus(s.out))]

\* status()
StatusRun(st, path) ==
    CHOOSE t \in {Snapshot(s) : s \in {Execute(st, path, W("status"), <<>>, TRUE)}} : TRUE

\* what a property makes of its parse r of the text: the value, or the exception
Parsed(s, r) ==
    IF s.exc # None THEN s
    ELSE IF r.kind = "raise" THEN [s EXCEPT !.exc = Some(r.error)]
    ELSE [s EXCEPT !.ret = r.value]

ReadBranch(s) == CHOOSE t \in {Parsed(s, r) : r \in {CurrentBranchOf(s.out)}} : TRUE

\* the property current_branch
CurrentBranchRun(st, path) ==
    CHOOSE t \in {ReadBranch(s) :
                  s \in {Execute(st, path, W("rev-parse"),
                                 Tail(Split(<<"rev-parse", " ", "--abbrev-ref", " ", "HEAD">>,
                                            <<" ">>)), TRUE)}} : TRUE

LogCommand ==
    <<"log", " ", "--pretty=format:", Quote, "%H">> \o Delimeter \o <<"%an">> \o Delimeter
    \o <<"%ad">> \o Delimeter \o <<"%s", Quote, " ", "-1", " ", "--date=iso">>

ReadCommit(s) == CHOOSE t \in {Parsed(s, r) : r \in {LastCommitOf(s.out)}} : TRUE

\* the property last_commit
LastCommitRun(st, path) ==
    CHOOSE t \in {ReadCommit(s) : s \in {Execute(st, path, LogCommand, <<>>, TRUE)}} : TRUE

ShowCommand(position) ==
    <<"show", " ", "HEAD~", ToString(position), " ", "--pretty=format:", Quote, "%H">>
    \o Delimeter \o <<"%an">> \o Delimeter \o <<"%ad">> \o Delimeter
    \o <<"%s", Quote, " ", "--date=iso", " ", "-s">>

ReadCommitAt(s) == CHOOSE t \in {Parsed(s, r) : r \in {CommitByPositionOf(s.out)}} : TRUE

\* get_commit_by_position(position)
CommitByPositionRun(st, path, position) ==
    CHOOSE t \in {ReadCommitAt(s) : s \in {Execute(st, path, ShowCommand(position), <<>>, TRUE)}} : TRUE

ReadBranches(s) == CHOOSE t \in {Parsed(s, r) : r \in {LocalBranchesOf(s.out)}} : TRUE

\* the property local_branches
LocalBranchesRun(st, path) ==
    CHOOSE t \in {ReadBranches(s) : s \in {Execute(st, path, W("branch"), <<>>, TRUE)}} : TRUE

ReadRemote(s) == IF s.exc # None THEN s ELSE [s EXCEPT !.ret = Some(SplitLines(s.out))]

\* the property remote
RemoteRun(st, path) ==
    CHOOSE t \in {ReadRemote(s) : s \in {Execute(st, path, W("remote"), <<>>, TRUE)}} : TRUE

\* the command branches_by_commit runs, whatever commit it is given
ContainsCommand ==
    <<"git", " ", "branch", " ", "--contains", " ",
      "b6725c1c72bd09361531af14926e47a684a04815">>

\* the comprehension of branches_by_commit evaluates b, a name that is not
\* bound, once per line: NameError unless the text has no line
ReadContaining(s) ==
    IF s.exc # None THEN s
    ELSE IF SplitLines(Replace(s.out, <<"*", " ">>, <<>>)) = <<>>
    THEN [s EXCEPT !.ret = Some(<<>>)]
    ELSE [s EXCEPT !.exc = Some("NameError")]

\* branches_by_commit(commit)
BranchesByCommitRun(st, path) ==
    CHOOSE t \in {ReadContaining(s) : s \in {Execute(st, path, ContainsCommand, <<>>, TRUE)}} : TRUE

ReturnText(s) == IF s.exc # None THEN s ELSE [s EXCEPT !.ret = Some(s.out)]

\* execute(command, *args) called by the user of the handle
ExecuteRun(st, path, command, args, lucky) ==
    CHOOSE t \in {ReturnText(s) : s \in {Execute(st, path, command, args, lucky)}} : TRUE

RECURSIVE AddEach(_, _, _)
AddEach(st, path, files) ==
    IF files = <<>> THEN st
    ELSE AddEach(Execute(st, path, W("add"), <<Head(files)>>, TRUE), path, Tail(files))

\* add_files reading the status before it adds, for comparison: the
\* snapshot it returns predates its own effect
AddFilesStatusFirst(st, path, files, all_files) ==
    IF all_files THEN Execute(StatusRun(st, path), path, <<"add", " ", "-A">>, <<>>, TRUE)
    ELSE IF Len(files) > 0 THEN AddEach(StatusRun(st, path), path, files)
    ELSE StatusRun(st, path)

\* add_files(files, all_files)
AddFilesRun(st, path, files, all_files) ==
    StatusRun(IF all_files THEN Execute(st, path, <<"add", " ", "-A">>, <<>>, TRUE)
              ELSE IF Len(files) > 0 THEN AddEach(st, path, files)
              ELSE st,
              path)

\* commit(message)
CommitRun(st, path, message) ==
    StatusRun(Execute(st, path, <<"commit", " ", "-m">>, <<message>>, TRUE), path)

\* add_remote(url, name)
AddRemoteRun(st, path, url, name) ==
    StatusRun(Execute(st, path, <<"remote", " ", "add", " ">> \o name \o <<" ">> \o url,
                      <<>>, TRUE), path)

\* remove_remote(name)
RemoveRemoteRun(st, path, name) ==
    StatusRun(Execute(st, path, <<"remote", " ", "remove", " ">> \o name, <<>>, TRUE), path)

\* a push command with -f ahead of the refspec, for comparison
\* the truth value of an optional text: None and '' are false
Truthy(text) == text # None /\ text[1] # <<>>

PushCommandForceFirst(remote_name, force, remote_branch, local_branch) ==
    <<"push", " ">> \o remote_name
    \o (IF force THEN <<" ", "-f">> ELSE <<>>)
    \o <<" ">> \o local_branch
    \o (IF Truthy(remote_branch) THEN <<":">> \o remote_branch[1] ELSE <<>>)

\* the command push builds; local_branch is the text the f-string shows,
\* and `if remote_branch` holds for a text that is not empty
PushCommand(remote_name, force, remote_branch, local_branch) ==
    <<"push", " ">> \o remote_name \o <<" ">> \o local_branch
    \o (IF Truthy(remote_branch) THEN <<":">> \o remote_branch[1] ELSE <<>>)
    \o (IF force THEN <<" ", "-f">> ELSE <<>>)

\* the command pull builds
PullCommand(remote_name, force, remote_branch, local_branch) ==
    <<"pull", " ">> \o remote_name \o <<" ">> \o local_branch
    \o (IF Truthy(remote_branch) THEN <<":">> \o remote_branch[1] ELSE <<>>)
    \o (IF force THEN <<" ", "-f">> ELSE <<>>)

\* the text an f-string shows for the branch read
Shown(s) == IF s.exc # None THEN s ELSE [s EXCEPT !.ret = Some(BranchStr(s.ret[1]))]

\* local_branch or self.current_branch: None and the empty text both fall
\* back on the property; ret is the text the f-string shows
LocalBranchOr(st, path, local_branch) ==
    IF Truthy(local_branch) THEN [st EXCEPT !.ret = Some(local_branch[1])]
    ELSE CHOOSE t \in {Shown(s) : s \in {CurrentBranchRun(st, path)}} : TRUE

PushOn(s, path, remote_name, force, remote_branch, lucky) ==
    IF s.exc # None THEN s
    ELSE StatusRun(Execute(s, path, PushCommand(remote_name, force, remote_branch, s.ret[1]),
                           <<>>, lucky), path)

\* push(remote_name, force, remote_branch, local_branch)
PushRun(st, path, remote_name, force, remote_branch, local_branch, lucky) ==
    CHOOSE t \in {PushOn(s, path, remote_name, force, remote_branch, lucky) :
                  s \in {LocalBranchOr(st, path, local_branch)}} : TRUE

PullOn(s, path, remote_name, force, remote_branch, lucky) ==
    IF s.exc # None THEN s
    ELSE StatusRun(Execute(s, path, PullCommand(remote_name, force, remote_branch, s.ret[1]),
                           <<>>, lucky), path)

\* pull(remote_name, force, remote_branch, local_branch)
PullRun(st, path, remote_name, force, remote_branch, local_branch, lucky) ==
    CHOOSE t \in {PullOn(s, path, remote_name, force, remote_branch, lucky) :
                  s \in {LocalBranchOr(st, path, local_branch)}} : TRUE

\* revert_last_commit()
RevertLastCommitRun(st, path, lucky) ==
    LastCommitRun(Execute(st, path, <<"revert", " ", "--no-edit", " ", "HEAD">>, <<>>, lucky),
                  path)

\* change_last_commit_message(message)
ChangeLastCommitMessageRun(st, path, message) ==
    LastCommitRun(Execute(st, path, <<"commit", " ", "--amend", " ", "-m">>, <<message>>, TRUE),
                  path)

\* checkout(destination)
CheckoutRun(st, path, destination) ==
    StatusRun(Execute(st, path, <<"checkout", " ">> \o destination, <<>>, TRUE), path)

ReturningOn(value, s) == IF s.exc # None THEN s ELSE [s EXCEPT !.ret = Some(value)]

\* the value a call returns unless it raised
Returning(value, st) == CHOOSE t \in {ReturningOn(value, s) : s \in {st}} : TRUE

\* create_branch(name, move_to)
CreateBranchRun(st, path, name, move_to) ==
    Returning(Branch(name),
              IF move_to
              THEN CheckoutRun(Execute(st, path, <<"branch", " ">> \o name, <<>>, TRUE), path, name)
              ELSE Execute(st, path, <<"branch", " ">> \o name, <<>>, TRUE))

\* a merge command with --no-commit set on new_commit, for comparison
MergeCommandCommitFlagInverted(branch, squash, new_commit) ==
    <<"merge", " ", "--ff-only">>
    \o (IF squash THEN <<" ", "--squash">> ELSE <<>>)
    \o (IF new_commit THEN <<" ", "--no-commit">> ELSE <<>>)
    \o <<" ">> \o BranchStr(branch)

\* the command merge_branches builds
MergeCommand(branch, squash, new_commit) ==
    <<"merge", " ", "--ff-only">>
    \o (IF squash THEN <<" ", "--squash">> ELSE <<>>)
    \o (IF ~new_commit THEN <<" ", "--no-commit">> ELSE <<>>)
    \o <<" ">> \o BranchStr(branch)

\* merge_branches(branch_origin, branch, squash, new_commit)
MergeBranchesRun(st, path, branch_origin, branch, squash, new_commit, lucky) ==
    Returning(Branch(branch_origin),
              Execute(CheckoutRun(st, path, BranchStr(branch_origin)), path,
                      MergeCommand(branch, squash, new_commit), <<>>, lucky))

----------------------------------------------------------------------------
(* Repository.build *)

Repository(path) == [path |-> path]

\* the tool's init at path: makes the directory if need be, and its metadata
GitInit(fsv, path) == [fsv EXCEPT ![path] = "repo"]

\* Repository._create(path)
Create(b, path) ==
    [b EXCEPT !.fs = GitInit(b.fs, path),
              !.trace = Append(@, Invocation("git", <<W("init"), W(path)>>, TRUE, <<>>))]

\* os.makedirs(path): FileExistsError when the path exists
Makedirs(b, path) ==
    IF b.fs[path] # "absent"
    THEN [b EXCEPT !.trace = Append(@, Invocation("os.makedirs", <<W(path)>>, FALSE, <<>>)),
                   !.exc = Some("FileExistsError")]
    ELSE [b EXCEPT !.fs[path] = "dir",
                   !.trace = Append(@, Invocation("os.makedirs", <<W(path)>>, TRUE, <<>>))]

StartBuild(fsv) == [fs |-> fsv, trace |-> <<>>, exc |-> None, ret |-> None]

\* a build that creates what is missing without being asked, for comparison
BuildCreatesUnasked(fsv, path, create_repository, create_project) ==
    LET b == StartBuild(fsv)
    IN IF create_project
       THEN LET m == Makedirs(b, path)
            IN IF m.exc # None THEN m
               ELSE [Create(m, path) EXCEPT !.ret = Some(Repository(path))]
       ELSE [Create(b, path) EXCEPT !.ret = Some(Repository(path))]

\* a build that runs init before it makes the directory, for comparison
BuildInitBeforeMakedirs(fsv, path, create_repository, create_project) ==
    LET b == StartBuild(fsv)
        exists == fsv[path] = "repo"
        force_create == create_repository \/ create_project
    IN IF ~exists /\ ~force_create
       THEN [b EXCEPT !.exc = Some("RepositoryNotFoundError")]
       ELSE IF create_project
       THEN LET m == Makedirs(Create(b, path), path)
            IN IF m.exc # None THEN m ELSE [m EXCEPT !.ret = Some(Repository(path))]
       ELSE IF create_repository
       THEN [Create(b, path) EXCEPT !.ret = Some(Repository(path))]
       ELSE [b EXCEPT !.ret = Some(Repository(path))]

\* Repository.build(path, create_repository, create_project)
BuildRun(fsv, path, create_repository, create_project) ==
    LET b == StartBuild(fsv)
        exists == fsv[path] = "repo"
        force_create == create_repository \/ create_project
    IN IF ~exists /\ ~force_create
       THEN [b EXCEPT !.exc = Some("RepositoryNotFoundError")]
       ELSE IF create_project
       THEN LET m == Makedirs(b, path)
            IN IF m.exc # None THEN m
               ELSE [Create(m, path) EXCEPT !.ret = Some(Repository(path))]
       ELSE IF create_repository
       THEN [Create(b, path) EXCEPT !.ret = Some(Repository(path))]
       ELSE [b EXCEPT !.ret = Some(Repository(path))]

----------------------------------------------------------------------------
(* The facade driven by a caller: build a handle, then any sequence of calls *)

FileArgs == SeqUpTo({W(PathA), W(PathB), W(MissingFile)}, MaxFiles)
Messages == { <<"fix", " ", "bug">> }
Destinations == {W("main"), W("dev"), W("gone")}
BranchArgs == {Branch(W("main")), Branch(W("dev"))}
RemoteBranchArgs == {None, Some(<<>>), Some(W("feature"))}
LocalBranchArgs == {None, Some(<<>>), Some(W("dev"))}

\* the state after construction: a handle on the repository at "proj"
Init ==
    /\ fs = [p \in Paths |-> IF p = "proj" THEN "repo" ELSE "absent"]
    /\ git \in {Some(g) : g \in ExistingRepos}
    /\ repo = Some(Repository("proj"))
    /\ before = None
    /\ call = None
    /\ trace = <<>>
    /\ result = None
    /\ IdleStatus
    /\ IdleQuery

Outcome(exc, ret) ==
    IF exc = None THEN [kind |-> "return", value |-> ret, error |-> "none"] ELSE Raise(exc[1])

\* the caller sees the call end: what it returned or raised, and what it did
Finish(name, args, run) ==
    \E st \in {run} :
        /\ call' = Some([name |-> name, args |-> args])
        /\ before' = Some([fs |-> fs, git |-> git])
        /\ git' = Some(st.g)
        /\ trace' = st.trace
        /\ result' = Some(Outcome(st.exc, st.ret))
        /\ UNCHANGED <<fs, repo, response, sections, query, logtext, answer>>

Handle == repo[1].path
Now == Start(git[1])

Status ==
    /\ call = None
    /\ Finish("status", [none |-> TRUE], StatusRun(Now, Handle))

AddFiles ==
    /\ call = None
    /\ \E files \in FileArgs, all_files \in BOOLEAN :
        /\ all_files => files = <<>>
        /\ Finish("add_files", [files |-> files, all_files |-> all_files],
                  AddFilesRun(Now, Handle, files, all_files))

CommitFiles ==
    /\ call = None
    /\ Len(git[1].log) < MaxCommits
    /\ \E message \in Messages :
        Finish("commit", [message |-> message], CommitRun(Now, Handle, message))

AddRemote ==
    /\ call = None
    /\ \E url \in {W("url")}, name \in {W("origin")} :
        Finish("add_remote", [url |-> url, name |-> name], AddRemoteRun(Now, Handle, url, name))

RemoveRemote ==
    /\ call = None
    /\ \E name \in {W("origin")} :
        Finish("remove_remote", [name |-> name], RemoveRemoteRun(Now, Handle, name))

Push ==
    /\ call = None
    /\ \E remote_name \in {W("origin")}, force \in BOOLEAN, remote_branch \in RemoteBranchArgs,
          local_branch \in LocalBranchArgs, lucky \in BOOLEAN :
        Finish("push",
               [remote_name |-> remote_name, force |-> force,
                remote_branch |-> remote_branch, local_branch |-> local_branch],
               PushRun(Now, Handle, remote_name, force, remote_branch, local_branch, lucky))

Pull ==
    /\ call = None
    /\ \E remote_name \in {W("origin")}, force \in BOOLEAN, remote_branch \in RemoteBranchArgs,
          local_branch \in LocalBranchArgs, lucky \in BOOLEAN :
        Finish("pull",
               [remote_name |-> remote_name, force |-> force,
                remote_branch |-> remote_branch, local_branch |-> local_branch],
               PullRun(Now, Handle, remote_name, force, remote_branch, local_branch, lucky))

RevertLastCommit ==
    /\ call = None
    /\ Len(git[1].log) < MaxCommits
    /\ \E lucky \in BOOLEAN :
        Finish("revert_last_commit", [none |-> TRUE], RevertLastCommitRun(Now, Handle, lucky))

ChangeLastCommitMessage ==
    /\ call = None
    /\ \E message \in { <<"reword">> } :
        Finish("change_last_commit_message", [message |-> message],
               ChangeLastCommitMessageRun(Now, Handle, message))

Checkout ==
    /\ call = None
    /\ \E destination \in Destinations :
        Finish("checkout", [destination |-> destination], CheckoutRun(Now, Handle, destination))

CreateBranch ==
    /\ call = None
    /\ \E name \in {W("dev")}, move_to \in BOOLEAN :
        Finish("create_branch", [name |-> name, move_to |-> move_to],
               CreateBranchRun(Now, Handle, name, move_to))

MergeBranches ==
    /\ call = None
    /\ \E branch_origin \in BranchArgs, branch \in BranchArgs, squash \in BOOLEAN,
          new_commit \in BOOLEAN, lucky \in BOOLEAN :
        Finish("merge_branches",
               [branch_origin |-> branch_origin, branch |-> branch, squash |-> squash,
                new_commit |-> new_commit],
               MergeBranchesRun(Now, Handle, branch_origin, branch, squash, new_commit, lucky))

\* a command the caller runs through execute, with its extra arguments
ExecuteArgs ==
    { [command |-> <<"checkout", " ", "dev">>, args |-> <<>>],
      [command |-> <<"checkout", " ", "gone">>, args |-> <<>>],
      [command |-> W("add"), args |-> <<W(PathB)>>],
      [command |-> W("status"), args |-> <<>>],
      [command |-> <<"merge", " ", "main">>, args |-> <<>>] }
Positions == {0, 1}

ExecuteCommand ==
    /\ call = None
    /\ \E e \in ExecuteArgs, lucky \in BOOLEAN :
        Finish("execute", e, ExecuteRun(Now, Handle, e.command, e.args, lucky))

CurrentBranch ==
    /\ call = None
    /\ Finish("current_branch", [none |-> TRUE], CurrentBranchRun(Now, Handle))

LocalBranches ==
    /\ call = None
    /\ Finish("local_branches", [none |-> TRUE], LocalBranchesRun(Now, Handle))

Remote ==
    /\ call = None
    /\ Finish("remote", [none |-> TRUE], RemoteRun(Now, Handle))

LastCommit ==
    /\ call = None
    /\ Finish("last_commit", [none |-> TRUE], LastCommitRun(Now, Handle))

CommitByPosition ==
    /\ call = None
    /\ \E position \in Positions :
        Finish("get_commit_by_position", [position |-> position],
               CommitByPositionRun(Now, Handle, position))

BranchesByCommit ==
    /\ call = None
    /\ Finish("branches_by_commit", [none |-> TRUE], BranchesByCommitRun(Now, Handle))

\* the caller takes the outcome of the call and goes on
CallerContinues ==
    /\ call # None
    /\ call' = None
    /\ before' = None
    /\ trace' = <<>>
    /\ result' = None
    /\ UNCHANGED <<fs, git, repo, response, sections, query, logtext, answer>>

Next ==
    \/ Status
    \/ AddFiles
    \/ CommitFiles
    \/ AddRemote
    \/ RemoveRemote
    \/ Push
    \/ Pull
    \/ RevertLastCommit
    \/ ChangeLastCommitMessage
    \/ Checkout
    \/ CreateBranch
    \/ MergeBranches
    \/ ExecuteCommand
    \/ CurrentBranch
    \/ LocalBranches
    \/ Remote
    \/ LastCommit
    \/ CommitByPosition
    \/ BranchesByCommit
    \/ CallerContinues

Spec == Init /\ [][Next]_vars

----------------------------------------------------------------------------
(* Repository.build on every filesystem of a bounded family *)

InitBuild ==
    /\ fs \in [Paths -> {"absent", "dir", "repo"}]
    /\ git = None
    /\ repo = None
    /\ before = None
    /\ call = None
    /\ trace = <<>>
    /\ result = None
    /\ IdleStatus
    /\ IdleQuery

Build ==
    \E path \in Paths, create_repository \in BOOLEAN, create_project \in BOOLEAN :
        LET b == BuildRun(fs, path, create_repository, create_project)
        IN /\ call = None
           /\ call' = Some([name |-> "build",
                            args |-> [path |-> path, create_repository |-> create_repository,
                                      create_project |-> create_project]])
           /\ before' = Some([fs |-> fs, git |-> git])
           /\ fs' = b.fs
           /\ trace' = b.trace
           /\ result' = Some(Outcome(b.exc, b.ret))
           /\ repo' = b.ret
           /\ UNCHANGED <<git, response, sections, query, logtext, answer>>

NextBuild == Build

SpecBuild == InitBuild /\ [][NextBuild]_vars

----------------------------------------------------------------------------
(* What the specification asks of build *)

Called(name) == call # None /\ call[1].name = name
Given == call[1].args
Raised == result[1].kind = "raise"
Returned == result[1].kind = "return"

\* C4: build on a path without metadata, with neither creation flag, raises
\* RepositoryNotFoundError, returns no handle, creates no directory and
\* does not run the tool's init: the filesystem is as it was.
C4_BuildNotFound ==
    (/\ Called("build")
     /\ before[1].fs[Given.path] # "repo"
     /\ ~Given.create_repository
     /\ ~Given.create_project)
        => /\ result[1] = Raise("RepositoryNotFoundError")
           /\ repo = None
           /\ fs = before[1].fs
           /\ trace = <<>>

\* build without creation flags has raised on a path that does not exist
C4_Witness ==
    /\ Called("build")
    /\ ~Given.create_repository /\ ~Given.create_project
    /\ before[1].fs[Given.path] = "absent"
    /\ Raised
    /\ fs[Given.path] = "absent"

\* C5: build with create_project on a path that does not exist makes the
\* directory, then runs the tool's init on that path, and returns a handle
\* on that path; afterwards the directory and its metadata exist.
C5_BuildCreatesProject ==
    (Called("build") /\ Given.create_project /\ before[1].fs[Given.path] = "absent")
        => /\ trace = << Invocation("os.makedirs", <<W(Given.path)>>, TRUE, <<>>),
                         Invocation("git", <<W("init"), W(Given.path)>>, TRUE, <<>>) >>
           /\ result[1] = Return(Repository(Given.path))
           /\ repo = Some(Repository(Given.path))
           /\ fs = [before[1].fs EXCEPT ![Given.path] = "repo"]

\* build with create_project has returned a handle on a path that did not exist
C5_Witness ==
    /\ Called("build")
    /\ Given.create_project /\ ~Given.create_repository
    /\ before[1].fs[Given.path] = "absent"
    /\ Returned
    /\ fs[Given.path] = "repo"
    /\ Len(trace) = 2

----------------------------------------------------------------------------
(* What the specification asks of the calls on a handle *)

\* the arguments of the i-th invocation after the global `-C <path>`
Args(i) == Drop(trace[i].argv, 2)

IsGit(i) == trace[i].tool = "git" /\ SubSeq(trace[i].argv, 1, 2) = <<W("-C"), W(Handle)>>
IsStatus(i) == IsGit(i) /\ Args(i) = <<W("status")>>
IsLog(i) == IsGit(i) /\ Args(i) = Split(LogCommand, <<" ">>)
IsCurrentBranch(i) == IsGit(i) /\ Args(i) = <<W("rev-parse"), W("--abbrev-ref"), W("HEAD")>>
IsQuery(i) == IsStatus(i) \/ IsLog(i) \/ IsCurrentBranch(i)

Tokens(argv) == {argv[i] : i \in DOMAIN argv}

\* C2: push with remote_branch "feature" and no local_branch hands the
\* executor a push command whose token after the remote name is
\* <current branch>:feature, the current branch being the one the query of
\* this call returned; with force the next token is -f, and without force
\* the command holds no -f.
C2_PushRefspec ==
    (/\ Called("push")
     /\ Given.remote_branch = Some(W("feature"))
     /\ Given.local_branch \in {None, Some(<<>>)})
        => /\ trace # <<>> /\ IsCurrentBranch(1)
           /\ (trace[1].ok /\ Strip(trace[1].out) # <<>>) => Len(trace) >= 2
           /\ Len(trace) >= 2 =>
                /\ IsGit(2)
                /\ Args(2)[1] = W("push")
                /\ Args(2)[2] = Given.remote_name
                /\ Args(2)[3] = Strip(trace[1].out) \o <<":", "feature">>
                /\ IF Given.force
                   THEN Len(Args(2)) = 4 /\ Args(2)[4] = W("-f")
                   ELSE Len(Args(2)) = 3 /\ W("-f") \notin Tokens(Args(2))

\* a forced push to "feature" from the current branch dev has been issued
C2_Witness ==
    /\ Called("push")
    /\ Given.remote_branch = Some(W("feature")) /\ Given.local_branch = None /\ Given.force
    /\ Returned
    /\ Len(trace) = 3
    /\ Args(2) = <<W("push"), W("origin"), <<"dev", ":", "feature">>, W("-f")>>

Merges == {i \in DOMAIN trace : IsGit(i) /\ Args(i)[1] = W("merge")}

\* C3: merge_branches first checks out branch_origin, then issues one merge
\* command that carries --ff-only always, --squash exactly when squash,
\* --no-commit exactly when not new_commit, and ends with the branch to
\* merge; when the tool rejects the merge the call raises, returning no Branch.
C3_MergeCommand ==
    Called("merge_branches") =>
        /\ trace # <<>> /\ IsGit(1)
        /\ Args(1) = <<W("checkout"), BranchStr(Given.branch_origin)>>
        /\ Cardinality(Merges) <= 1
        /\ (trace[1].ok => Merges # {})
        /\ \A i \in Merges :
             /\ i = Len(trace) /\ i > 1
             /\ Args(i)[2] = W("--ff-only")
             /\ W("--squash") \in Tokens(Args(i)) <=> Given.squash
             /\ W("--no-commit") \in Tokens(Args(i)) <=> ~Given.new_commit
             /\ Args(i)[Len(Args(i))] = BranchStr(Given.branch)
             /\ (Given.squash /\ ~Given.new_commit) =>
                    Args(i) = <<W("merge"), W("--ff-only"), W("--squash"), W("--no-commit"),
                                BranchStr(Given.branch)>>
             /\ ~trace[i].ok => Raised
        /\ Returned => (Merges # {} /\ trace[Len(trace)].ok
                        /\ result[1].value = Some(Branch(Given.branch_origin)))

\* a squashed, uncommitted merge was issued after the checkout and the tool
\* rejected it
C3_Witness ==
    /\ Called("merge_branches")
    /\ Given.squash /\ ~Given.new_commit
    /\ Len(trace) = 3
    /\ trace[1].ok /\ IsStatus(2)
    /\ Args(3) = <<W("merge"), W("--ff-only"), W("--squash"), W("--no-commit"), W("dev")>>
    /\ ~trace[3].ok
    /\ Raised

\* C8: every call is all or nothing: a call that fails leaves the
\* repository as it was when the call started.
C8_AllOrNothing ==
    (call # None /\ Raised) => (git = before[1].git /\ fs = before[1].fs)

SnapshotCalls ==
    {"add_files", "commit", "add_remote", "remove_remote", "push", "pull", "checkout"}
CommitCalls == {"revert_last_commit", "change_last_commit_message"}

Last == Len(trace)

\* C9: each of add_files, commit, add_remote, remove_remote, push, pull and
\* checkout returns the snapshot of a status invocation issued in that call
\* after all its mutating invocations; revert_last_commit and
\* change_last_commit_message return the commit of a log query issued after
\* their mutating invocation; when a mutating invocation fails no follow-up
\* query is issued and nothing is returned.
C9_FreshSnapshot ==
    /\ (call # None /\ call[1].name \in SnapshotCalls) =>
         /\ Returned =>
              /\ trace # <<>> /\ IsStatus(Last) /\ trace[Last].ok
              /\ \A i \in 1..(Last - 1) : ~IsStatus(i) /\ trace[i].ok
              /\ trace[Last].out = StatusText(git[1])
              /\ result[1].value = Some(ParseStatus(trace[Last].out))
         /\ (\E i \in DOMAIN trace : ~IsQuery(i) /\ ~trace[i].ok) =>
              /\ Raised
              /\ \A i \in DOMAIN trace : ~IsStatus(i)
    /\ (call # None /\ call[1].name \in CommitCalls) =>
         /\ trace # <<>> /\ ~IsQuery(1)
         /\ Returned =>
              /\ Last = 2 /\ trace[1].ok /\ IsLog(2) /\ trace[2].ok
              /\ trace[2].out = LogText(git[1])
              /\ result[1].value = LastCommitOf(trace[2].out).value
         /\ ~trace[1].ok => (Raised /\ Last = 1)

\* commit has returned a snapshot that shows the repository after the commit:
\* the file staged before the call is no longer listed as new
C9_Witness ==
    /\ Called("commit")
    /\ Returned
    /\ git # before[1].git
    /\ ParseStatus(StatusText(before[1].git[1])).new # <<>>
    /\ result[1].value[1].new = <<>>
    /\ Last = 2

====
